---- MODULE Spec2Model ----
(***************************************************************************)
(* Model of the GPWv5 data-preparation scripts (src/data_prep):            *)
(*   check_input_boundaries.py   - validate, copy, union, flag gaps and    *)
(*                                 overlaps, log statistics                *)
(*   eliminate_gaps_overlaps.py  - select flagged slivers and eliminate    *)
(*   setup_gap_overlap_review.py - rebind the review project's layers      *)
(* Every arcpy call is a step whose answer is drawn from a small set; the  *)
(* scripts' own bookkeeping is computed as the Python computes it.         *)
(***************************************************************************)
EXTENDS Integers, Sequences, FiniteSets, TLC

VARIABLES
    \* ---- check_input_boundaries.py -------------------------------------
    pc,               \* position of the script
    err,              \* the unhandled exception that ended the script, or "none"
    wordsRead,        \* "unread" | "ok" | "ioerror": outcome of open(RESERVED_WORDS_FILE)
    reserved_words,   \* local of check_fields: words read from the file
    flds,             \* local of check_fields: upper-cased field names
    changed_names,    \* local of check_fields: the rename mapping, a set of <<old, new>>
    updated_names,    \* main: the mapping check_fields returned
    shape_type,       \* desc['shapeType'] of the input
    repair,           \* main: repair_geometry, "None" | "True"
    topo,             \* main: topology_tests, "None" | "True" | "False"
    has_proj,         \* main: projection_defined, "None" | "True" | "False"
    sr,               \* main: "None" | "4326"
    fc_copy,          \* main: the dataset make_copy returned, <<>> before
    log,              \* toolkit calls that create or change data: <<tool, dataset>>
    \* ---- overlap_gap_analysis and the statistics ------------------------
    fc,               \* parameter fc of overlap_gap_analysis
    original_count,   \* GetCount of fc
    unionRecs,        \* rows of the union output; OBJECTID is the row's index
    unionFlds,        \* lower-cased field names of the union output
    gaps,             \* local gaps of overlap_gap_analysis
    uids,             \* local uids
    overlaps,         \* local overlaps
    gap_count,        \* main: returned gap count
    overlap_count,    \* main: returned overlap count
    topo_stats,       \* main: the statistics, or Unbound
    \* ---- eliminate_gaps_overlaps.py -------------------------------------
    e_pc,             \* position of the script
    e_flds,           \* field names of the input feature class
    e_recs,           \* its rows
    max_area,         \* args.max_area
    g,                \* check_fc: the gaps field exists
    o,                \* check_fc: the overlaps field exists
    query,            \* the where clause
    eliminated,       \* the selection handed to Eliminate, a set of row numbers
    \* ---- setup_gap_overlap_review.py ------------------------------------
    s_pc,             \* position of the script
    s_fc,             \* args.input_features, a sequence of path tokens
    s_exists,         \* arcpy.Exists of the original ingest feature class
    s_layers,         \* the layers of the imported map, in listLayers order
    s_saved           \* aprx.save() was called

mainVars == <<pc, err, wordsRead, reserved_words, flds, changed_names, updated_names,
              shape_type, repair, topo, has_proj, sr, fc_copy, log>>

mainData == <<wordsRead, reserved_words, flds, changed_names, updated_names,
              shape_type, repair, topo, has_proj, sr, fc_copy>>

analysisVars == <<fc, original_count, unionRecs, unionFlds, gaps, uids, overlaps,
                  gap_count, overlap_count, topo_stats>>

elimVars == <<e_pc, e_flds, e_recs, max_area, g, o, query, eliminated>>

setupVars == <<s_pc, s_fc, s_exists, s_layers, s_saved>>

\* the state of the scripts a run of check_input_boundaries.py does not touch
otherScripts == <<elimVars, setupVars>>

vars == <<mainVars, analysisVars, elimVars, setupVars>>

----------------------------------------------------------------------------
(* Python values *)

\* Python's None where a number is expected (a null cell of a cursor row).
None == 0 - 1

\* bool(x) of the three-valued locals of check_geometry.
Truthy(x) == x = "True"

----------------------------------------------------------------------------
(* Field names: sequences of characters. *)

NameChars == {"a", "A", "1", "_"}

\* The field names a layer may carry: one or two characters.
FieldNames ==
    {<<c>> : c \in NameChars} \cup {<<c, d>> : c \in NameChars, d \in NameChars}

\* Lines the reserved-word file may hold, before strip().
ReservedFileLines == {<<"A", " ">>, <<"a">>, <<" ", "_", "A">>, <<"A", "1">>}

\* The layers' field count.
MaxFields == 2

UpperChar(c) == IF c = "a" THEN "A" ELSE c

\* str.upper()
Upper(s) == [i \in 1..Len(s) |-> UpperChar(s[i])]

RECURSIVE LStrip(_)
LStrip(s) == IF s # <<>> /\ Head(s) = " " THEN LStrip(Tail(s)) ELSE s

RECURSIVE RStrip(_)
RStrip(s) ==
    IF s # <<>> /\ s[Len(s)] = " " THEN RStrip(SubSeq(s, 1, Len(s) - 1)) ELSE s

\* str.strip()
Strip(s) == RStrip(LStrip(s))

\* fld[:1].isdigit()
StartsWithDigit(s) == s # <<>> /\ s[1] = "1"

\* fld[:1] == '_'
StartsWithUnderscore(s) == s # <<>> /\ s[1] = "_"

\* (variant: the words are kept although the read failed)
ReadReservedWordsBug(readable, lines) == {Strip(l) : l \in lines}

\* _read_reserved_words: the set of stripped lines, or the empty set after IOError.
ReadReservedWords(readable, lines) ==
    IF readable THEN {Strip(l) : l \in lines} ELSE {}

\* dict assignment d[k] = v on a mapping held as a set of pairs
DictSet(d, k, v) == {p \in d : p[1] # k} \cup {<<k, v>>}

DictKeys(d) == {p[1] : p \in d}

DictGet(d, k) == (CHOOSE p \in d : p[1] = k)[2]

\* first loop of check_fields (lines 90-93): reserved names get an underscore appended
ReservedRenames(fs, words) == {<<f, f \o <<"_">>>> : f \in fs \cap words}

\* second loop of check_fields (lines 97-101), folded over the fields; the keys are
\* distinct, so the order of the fold does not matter
RECURSIVE EdgeRenames(_, _)
EdgeRenames(d, fs) ==
    IF fs = {} THEN d
    ELSE LET f == CHOOSE x \in fs : TRUE
             d2 == IF StartsWithDigit(f) THEN DictSet(d, f, <<"t", "_">> \o f)
                   ELSE IF StartsWithUnderscore(f) THEN DictSet(d, f, <<"t">> \o f)
                   ELSE d
         IN EdgeRenames(d2, fs \ {f})

\* (variant: a reserved name keeps its underscore suffix)
CheckFieldsNoEdgeOverride(fs, words) ==
    EdgeRenames({}, fs \ words) \cup ReservedRenames(fs, words)

\* check_fields, given the upper-cased field names and the reserved words: the
\* second loop overwrites what the first wrote for the same field
check_fields(fs, words) == EdgeRenames(ReservedRenames(fs, words), fs)

----------------------------------------------------------------------------
(* check_input_boundaries.py: __main__ up to the gap/overlap analysis *)

\* Datasets are named by the parts of their path: args.input_features, and
\* f'{iso}_ingest' in the output geodatabase; fc + '_union' appends a part.
InputFc == <<"input">>

ShapeTypes == {"Polygon", "MultiPatch", "Polyline", "Point"}

\* (variant: every shape type passes)
TopologyTestsAll(shape) == "True"

\* check_geometry's topology_tests for a shape type (lines 134-143)
TopologyTests(shape) ==
    IF shape \notin {"Polygon", "MultiPatch"}
    THEN (IF shape = "MultiPatch" THEN "True" ELSE "False")
    ELSE "True"

MainInit ==
    /\ pc = "start"
    /\ err = "none"
    /\ wordsRead = "unread"
    /\ reserved_words = {}
    /\ flds = {}
    /\ changed_names = {}
    /\ updated_names = {}
    /\ shape_type = "None"
    /\ repair = "None"
    /\ topo = "None"
    /\ has_proj = "None"
    /\ sr = "None"
    /\ fc_copy = <<>>
    /\ log = <<>>

\* _check_input_params (lines 58-73): a missing input ends the script with exit code 1;
\* otherwise the output folder and geodatabase are created.
CheckInputParams ==
    /\ pc = "start"
    /\ \E exists \in BOOLEAN :
        IF ~exists
        THEN pc' = "exit1_no_input" /\ log' = log
        ELSE pc' = "read_words" /\ log' = Append(log, <<"CreateFileGDB", <<"gdb">>>>)
    /\ UNCHANGED <<err, wordsRead, reserved_words, flds, changed_names, updated_names,
                   shape_type, repair, topo, has_proj, sr, fc_copy>>
    /\ UNCHANGED analysisVars
    /\ UNCHANGED otherScripts

\* _read_reserved_words (lines 43-55), called at line 87
ReadWords ==
    /\ pc = "read_words"
    /\ \E readable \in BOOLEAN, lines \in SUBSET ReservedFileLines :
        /\ wordsRead' = IF readable THEN "ok" ELSE "ioerror"
        /\ reserved_words' = ReadReservedWords(readable, lines)
    /\ pc' = "check_fields"
    /\ UNCHANGED <<err, flds, changed_names, updated_names, shape_type, repair, topo,
                   has_proj, sr, fc_copy, log>>
    /\ UNCHANGED analysisVars
    /\ UNCHANGED otherScripts

\* check_fields lines 88-101
CheckFields ==
    /\ pc = "check_fields"
    /\ \E names \in SUBSET FieldNames :
        /\ names # {}
        /\ Cardinality(names) <= MaxFields
        /\ flds' = {Upper(n) : n \in names}
    /\ changed_names' = check_fields(flds', reserved_words)
    /\ pc' = "fields_return"
    /\ UNCHANGED <<err, wordsRead, reserved_words, updated_names, shape_type, repair,
                   topo, has_proj, sr, fc_copy, log>>
    /\ UNCHANGED analysisVars
    /\ UNCHANGED otherScripts

\* check_fields returns (line 102) into updated_names (lines 354-360); its locals end.
ReturnUpdatedNames ==
    /\ pc = "fields_return"
    /\ updated_names' = changed_names
    /\ reserved_words' = {}
    /\ flds' = {}
    /\ changed_names' = {}
    /\ pc' = "check_geometry"
    /\ UNCHANGED <<err, wordsRead, shape_type, repair, topo, has_proj, sr, fc_copy, log>>
    /\ UNCHANGED analysisVars
    /\ UNCHANGED otherScripts

\* check_geometry (lines 105-145), called at line 364
CheckGeometry ==
    /\ pc = "check_geometry"
    /\ \E srKnown \in BOOLEAN, errors \in BOOLEAN, shape \in ShapeTypes :
        /\ shape_type' = shape
        /\ IF ~srKnown
           THEN /\ has_proj' = "False"
                /\ repair' = "None"
                /\ topo' = "None"
                /\ log' = log
           ELSE /\ has_proj' = "True"
                /\ repair' = IF errors THEN "True" ELSE "None"
                /\ topo' = TopologyTests(shape)
                /\ log' = Append(log, <<"CheckGeometry", InputFc>>)
    /\ pc' = "check_proj"
    /\ UNCHANGED <<err, wordsRead, reserved_words, flds, changed_names, updated_names,
                   sr, fc_copy>>
    /\ UNCHANGED analysisVars
    /\ UNCHANGED otherScripts

\* lines 365-369
CheckProjection ==
    /\ pc = "check_proj"
    /\ pc' = IF ~Truthy(has_proj) THEN "exit1_no_proj" ELSE "check_srs"
    /\ UNCHANGED <<err, wordsRead, reserved_words, flds, changed_names, updated_names,
                   shape_type, repair, topo, has_proj, sr, fc_copy, log>>
    /\ UNCHANGED analysisVars
    /\ UNCHANGED otherScripts

\* check_srs (lines 303-318) and lines 373-375
CheckSrs ==
    /\ pc = "check_srs"
    /\ \E isGeo \in BOOLEAN, wgs84 \in BOOLEAN :
        sr' = IF ~(isGeo /\ wgs84) THEN "4326" ELSE "None"
    /\ pc' = "check_topo"
    /\ UNCHANGED <<err, wordsRead, reserved_words, flds, changed_names, updated_names,
                   shape_type, repair, topo, has_proj, fc_copy, log>>
    /\ UNCHANGED analysisVars
    /\ UNCHANGED otherScripts

\* lines 378-380: `if not topo`
TopoGuard(t) == ~Truthy(t)

CheckTopo ==
    /\ pc = "check_topo"
    /\ pc' = IF TopoGuard(topo) THEN "exit1_no_polygons" ELSE "make_copy"
    /\ UNCHANGED <<err, wordsRead, reserved_words, flds, changed_names, updated_names,
                   shape_type, repair, topo, has_proj, sr, fc_copy, log>>
    /\ UNCHANGED analysisVars
    /\ UNCHANGED otherScripts

\* the dataset make_copy writes and returns (lines 164-166, 178)
CopyTarget == <<"ingest">>

\* make_copy (lines 154-178), called at lines 382-386
MakeCopy ==
    /\ pc = "make_copy"
    /\ fc_copy' = CopyTarget
    /\ log' = IF updated_names # {}
              THEN log \o <<<<"CopyFeatures", CopyTarget>>, <<"AlterField", CopyTarget>>>>
              ELSE Append(log, <<"CopyFeatures", CopyTarget>>)
    /\ pc' = "repair"
    /\ UNCHANGED <<err, wordsRead, reserved_words, flds, changed_names, updated_names,
                   shape_type, repair, topo, has_proj, sr>>
    /\ UNCHANGED analysisVars
    /\ UNCHANGED otherScripts

\* lines 389-391
RepairGeometry ==
    /\ pc = "repair"
    /\ log' = IF Truthy(repair) THEN Append(log, <<"RepairGeometry", fc_copy>>) ELSE log
    /\ pc' = "call_analysis"
    /\ UNCHANGED <<err, wordsRead, reserved_words, flds, changed_names, updated_names,
                   shape_type, repair, topo, has_proj, sr, fc_copy>>
    /\ UNCHANGED analysisVars
    /\ UNCHANGED otherScripts

----------------------------------------------------------------------------
(* overlap_gap_analysis (lines 180-282) *)

\* AREA_SQKM of a union fragment, in whole units
AreaValues == {1, 2}

\* the number of features of the working copy
OriginalCounts == {1, 2}

\* the longest union output
MaxUnion == 4

\* topo_stats before any assignment
Unbound == [bound |-> FALSE]

\* `not row[0]` on a union_uid cell: None and 0 are both falsy
Falsy(v) == v = None \/ v = 0

\* What arcpy.analysis.Union may return for a layer of n features numbered 1..n:
\* every input feature keeps at least one fragment, carrying its union_uid; a gap
\* polygon carries no union_uid, which a cursor reports as None or as 0. The flag
\* fields do not exist yet.
UnionOutputs(n) ==
    UNION {
        {[i \in 1..k |-> [union_uid |-> f[i][1], AREA_SQKM |-> f[i][2],
                          overlaps |-> None, gaps |-> None]] :
            f \in {c \in [1..k -> ({None} \cup (0..n)) \X AreaValues] :
                       \A u \in 1..n : \E i \in 1..k : c[i][1] = u}}
        : k \in n..MaxUnion }

\* lines 203-209: the gap count
RECURSIVE CountGaps(_)
CountGaps(rows) ==
    IF rows = <<>> THEN 0
    ELSE (IF Falsy(Head(rows).union_uid) THEN 1 ELSE 0) + CountGaps(Tail(rows))

\* lines 204-209: the list of non-null ids, in cursor order
RECURSIVE CollectUids(_)
CollectUids(rows) ==
    IF rows = <<>> THEN <<>>
    ELSE (IF Falsy(Head(rows).union_uid) THEN <<>> ELSE <<Head(rows).union_uid>>)
         \o CollectUids(Tail(rows))

\* (variant: the distinct ids are counted)
OverlapCountDistinct(us, n) == Cardinality({us[i] : i \in 1..Len(us)}) - n

\* line 210: the overlap count, the ids collected beyond the original record count
OverlapCount(us, n) == Len(us) - n

\* lines 227-228: ids present more than once in uids
Dupes(us) == {us[i] : i \in {j \in 1..Len(us) : \E k \in 1..(j - 1) : us[k] = us[j]}}

\* lines 234-246: overlap_sizes after the cursor has passed rows 1..i; a function
\* from the duplicated ids to <<area, oid>>. Row i replaces the entry of its id only
\* when its area is strictly larger.
RECURSIVE OverlapSizes(_, _, _)
OverlapSizes(rows, dupes, i) ==
    IF i = 0 THEN [x \in dupes |-> <<0, 0>>]
    ELSE LET prev == OverlapSizes(rows, dupes, i - 1)
             id == rows[i].union_uid
             area == rows[i].AREA_SQKM
         IN IF id \in dupes /\ area > prev[id][1]
            THEN [prev EXCEPT ![id] = <<area, i>>]
            ELSE prev

\* line 249
MainOverlapPolys(rows, dupes) ==
    {OverlapSizes(rows, dupes, Len(rows))[x][2] : x \in dupes}

\* lines 256-268: the overlaps flag each row gets
FlaggedOverlaps(rows, dupes) ==
    LET main == MainOverlapPolys(rows, dupes)
    IN [i \in 1..Len(rows) |->
           [rows[i] EXCEPT !.overlaps =
               IF rows[i].union_uid \in dupes
               THEN (IF i \in main THEN 2 ELSE 1)
               ELSE 0]]

\* int(row[1]) at lines 242 and 259 raises TypeError on a None cell
IntRaises(rows) == \E i \in 1..Len(rows) : rows[i].union_uid = None

\* lines 274-280: the gaps flag each row gets
FlaggedGaps(rows) ==
    [i \in 1..Len(rows) |->
        [rows[i] EXCEPT !.gaps = IF Falsy(rows[i].union_uid) THEN 1 ELSE 0]]

AnalysisInit ==
    /\ fc = <<>>
    /\ original_count = 0
    /\ unionRecs = <<>>
    /\ unionFlds = {}
    /\ gaps = 0
    /\ uids = <<>>
    /\ overlaps = 0
    /\ gap_count = None
    /\ overlap_count = None
    /\ topo_stats = Unbound

\* (variant: the input feature class itself is analysed)
AnalysisInputWrong == InputFc

\* the dataset main hands to overlap_gap_analysis (line 394)
AnalysisInput == fc_copy

\* line 393 `if topo:` and overlap_gap_analysis lines 182-188: the unique ids 1..n are
\* written to the working copy and counted. The locals of main that are not read
\* again (updated_names, sr, repair, has_proj, topo) and the facts observed about the
\* input are dropped from the state here.
CallAnalysis ==
    /\ pc = "call_analysis"
    /\ IF Truthy(topo)
       THEN /\ fc' = AnalysisInput
            /\ \E n \in OriginalCounts : original_count' = n
            /\ log' = Append(log, <<"AddField union_uid", fc'>>)
            /\ pc' = "union"
       ELSE /\ fc' = fc
            /\ original_count' = original_count
            /\ log' = log
            /\ pc' = "done"
    /\ wordsRead' = "unread"
    /\ updated_names' = {}
    /\ shape_type' = "None"
    /\ repair' = "None"
    /\ topo' = "None"
    /\ has_proj' = "None"
    /\ sr' = "None"
    /\ UNCHANGED <<err, reserved_words, flds, changed_names, fc_copy>>
    /\ UNCHANGED <<unionRecs, unionFlds, gaps, uids, overlaps, gap_count,
                   overlap_count, topo_stats>>
    /\ UNCHANGED otherScripts

\* lines 189-201: the union, its count, and the early return
Union ==
    /\ pc = "union"
    /\ \E u \in UnionOutputs(original_count) : unionRecs' = u
    /\ unionFlds' = {"objectid", "union_uid"}
    /\ log' = Append(log, <<"Union", fc>>)
    /\ IF Len(unionRecs') > original_count
       THEN /\ pc' = "count"
            /\ UNCHANGED <<gap_count, overlap_count>>
       ELSE /\ pc' = "stats"
            /\ gap_count' = 0
            /\ overlap_count' = 0
    /\ UNCHANGED <<mainData, err>>
    /\ UNCHANGED <<fc, original_count, gaps, uids, overlaps, topo_stats>>
    /\ UNCHANGED otherScripts

\* lines 202-221
CountGapsOverlaps ==
    /\ pc = "count"
    /\ gaps' = CountGaps(unionRecs)
    /\ uids' = CollectUids(unionRecs)
    /\ overlaps' = OverlapCount(uids', original_count)
    /\ unionFlds' = IF overlaps' # 0 \/ gaps' # 0
                    THEN unionFlds \cup {"area_sqkm"}
                    ELSE unionFlds
    /\ pc' = "flag_overlaps"
    /\ UNCHANGED <<mainData, err, log>>
    /\ UNCHANGED <<fc, original_count, unionRecs, gap_count, overlap_count, topo_stats>>
    /\ UNCHANGED otherScripts

\* fc_union = fc + '_union' (line 192)
FcUnion == Append(fc, "_union")

\* lines 223-268: flag the overlaps; int(row[1]) raises on a gap row whose id is None
FlagOverlaps ==
    /\ pc = "flag_overlaps"
    /\ IF overlaps > 0
       THEN /\ unionFlds' = unionFlds \cup {"overlaps"}
            /\ IF IntRaises(unionRecs)
               THEN /\ err' = "TypeError"
                    /\ pc' = "error"
                    /\ unionRecs' = unionRecs
                    /\ log' = IF "overlaps" \notin unionFlds
                              THEN Append(log, <<"AddField overlaps", FcUnion>>)
                              ELSE log
               ELSE /\ err' = err
                    /\ pc' = "flag_gaps"
                    /\ unionRecs' = FlaggedOverlaps(unionRecs, Dupes(uids))
                    /\ log' = (IF "overlaps" \notin unionFlds
                               THEN Append(log, <<"AddField overlaps", FcUnion>>)
                               ELSE log) \o <<<<"Update overlaps", FcUnion>>>>
       ELSE /\ pc' = "flag_gaps"
            /\ UNCHANGED <<unionFlds, err, unionRecs, log>>
    /\ UNCHANGED mainData
    /\ UNCHANGED <<fc, original_count, gaps, uids, overlaps, gap_count, overlap_count,
                   topo_stats>>
    /\ UNCHANGED otherScripts

\* lines 270-282: flag the gaps and return (fc_union, gaps, overlaps) to line 394
FlagGaps ==
    /\ pc = "flag_gaps"
    /\ IF gaps > 0
       THEN /\ unionFlds' = unionFlds \cup {"gaps"}
            /\ unionRecs' = FlaggedGaps(unionRecs)
            /\ log' = (IF "gaps" \notin unionFlds
                       THEN Append(log, <<"AddField gaps", FcUnion>>)
                       ELSE log) \o <<<<"Update gaps", FcUnion>>>>
       ELSE UNCHANGED <<unionFlds, unionRecs, log>>
    /\ gap_count' = gaps
    /\ overlap_count' = overlaps
    /\ pc' = "stats"
    /\ UNCHANGED <<mainData, err>>
    /\ UNCHANGED <<fc, original_count, gaps, uids, overlaps, topo_stats>>
    /\ UNCHANGED otherScripts

----------------------------------------------------------------------------
(* calculate_gap_overlap_stats (lines 284-300) and lines 395-404 of __main__ *)

\* the value a cursor row holds for a field name
Cell(row, fld) == IF fld = "gaps" THEN row.gaps ELSE row.overlaps

\* lines 289-294: poly_area after the rows; every field of check_fields[:-1] whose
\* cell is not 1 adds the row's area once more
RECURSIVE PolyArea(_, _)
PolyArea(rows, names) ==
    IF rows = <<>> THEN 0
    ELSE Cardinality({i \in 1..Len(names) : Cell(Head(rows), names[i]) # 1})
            * Head(rows).AREA_SQKM
         + PolyArea(Tail(rows), names)

\* lines 289-292: areas[fld], the areas of the rows whose cell for fld is 1
RECURSIVE AreasOf(_, _)
AreasOf(rows, fld) ==
    IF rows = <<>> THEN <<>>
    ELSE (IF Cell(Head(rows), fld) = 1 THEN <<Head(rows).AREA_SQKM>> ELSE <<>>)
         \o AreasOf(Tail(rows), fld)

RECURSIVE SeqSum(_)
SeqSum(q) == IF q = <<>> THEN 0 ELSE Head(q) + SeqSum(Tail(q))

SeqMax(q) == CHOOSE m \in {q[i] : i \in 1..Len(q)} : \A i \in 1..Len(q) : q[i] <= m

\* lines 295-300: the stats dict. A mean is held as <<sum, count>>.
StatsDict(rows, names) ==
    LET keys == {names[i] : i \in {j \in 1..Len(names) : AreasOf(rows, names[j]) # <<>>}}
    IN [bound |-> TRUE,
        avg_excl |-> PolyArea(rows, names),
        max |-> [k \in keys |-> SeqMax(AreasOf(rows, k))],
        mean |-> [k \in keys |-> <<SeqSum(AreasOf(rows, k)), Len(AreasOf(rows, k))>>]]

\* int(row[i]) at line 291 raises TypeError on a None cell
StatsIntRaises(rows, names) ==
    \E r \in 1..Len(rows) : \E i \in 1..Len(names) : Cell(rows[r], names[i]) = None

\* the second argument main passes at lines 395-400: a list at line 396, a bare
\* string at lines 398 and 400; "none" when no call is made
StatsArg(gc, oc) ==
    IF gc > 0 /\ oc > 0 THEN [kind |-> "list", names |-> <<"gaps", "overlaps">>]
    ELSE IF gc > 0 THEN [kind |-> "str", names |-> <<"gaps">>]
    ELSE IF oc > 0 THEN [kind |-> "str", names |-> <<"overlaps">>]
    ELSE [kind |-> "none", names |-> <<>>]

\* lines 395-400. check_fields.append('AREA_SQKM') (line 288) raises AttributeError
\* on a str argument.
CalculateStats ==
    /\ pc = "stats"
    /\ LET arg == StatsArg(gap_count, overlap_count)
       IN IF arg.kind = "none"
          THEN /\ pc' = "log_stats"
               /\ UNCHANGED <<err, topo_stats>>
          ELSE IF arg.kind = "str"
          THEN /\ pc' = "error"
               /\ err' = "AttributeError"
               /\ UNCHANGED topo_stats
          ELSE IF StatsIntRaises(unionRecs, arg.names)
          THEN /\ pc' = "error"
               /\ err' = "TypeError"
               /\ UNCHANGED topo_stats
          ELSE /\ pc' = "log_stats"
               /\ topo_stats' = StatsDict(unionRecs, arg.names)
               /\ UNCHANGED err
    /\ UNCHANGED <<mainData, log>>
    /\ UNCHANGED <<fc, original_count, unionRecs, unionFlds, gaps, uids, overlaps,
                   gap_count, overlap_count>>
    /\ UNCHANGED otherScripts

\* lines 402-404: topo_stats.items() raises NameError when no branch assigned it
LogStats ==
    /\ pc = "log_stats"
    /\ IF topo_stats.bound
       THEN pc' = "done" /\ err' = err
       ELSE pc' = "error" /\ err' = "NameError"
    /\ UNCHANGED <<mainData, log>>
    /\ UNCHANGED analysisVars
    /\ UNCHANGED otherScripts

----------------------------------------------------------------------------
(* eliminate_gaps_overlaps.py *)

\* the most rows of the input feature class
MaxRecs == 2

\* args.max_area
MaxAreaValues == {1, 2, 3}

\* The cells a row may hold: a flag field that exists holds 0, 1 (or 2 for overlaps)
\* or null; a field that does not exist has no cell (None); AREA_SQKM, where it
\* exists, holds an area. The input is the union output of check_input_boundaries,
\* where a gap row (gaps = 1) has no union_uid and so is never an overlap or a
\* central polygon.
RowsOver(fs) ==
    {r \in [gaps : IF "gaps" \in fs THEN {None, 0, 1} ELSE {None},
            overlaps : IF "overlaps" \in fs THEN {None, 0, 1, 2} ELSE {None},
            AREA_SQKM : IF "AREA_SQKM" \in fs THEN AreaValues ELSE {None}] :
        r.gaps = 1 => r.overlaps \in {None, 0}}

TablesOver(fs) == UNION {[1..k -> RowsOver(fs)] : k \in 1..MaxRecs}

\* SQL's three-valued comparisons and connectives: "T", "F", "U" (unknown, for null)
SqlEq(v, c) == IF v = None THEN "U" ELSE IF v = c THEN "T" ELSE "F"

\* (variant: <= for <)
SqlLtLe(v, c) == IF v = None THEN "U" ELSE IF v <= c THEN "T" ELSE "F"

SqlLt(v, c) == IF v = None THEN "U" ELSE IF v < c THEN "T" ELSE "F"

SqlOr(a, b) ==
    IF a = "T" \/ b = "T" THEN "T" ELSE IF a = "F" /\ b = "F" THEN "F" ELSE "U"

SqlAnd(a, b) ==
    IF a = "F" \/ b = "F" THEN "F" ELSE IF a = "T" /\ b = "T" THEN "T" ELSE "U"

\* check_fc lines 9-17, 23: which flag fields exist
CheckFc(fs) == <<"gaps" \in fs, "overlaps" \in fs>>

\* lines 56-61: the where clause, as the flag fields compared with 1 and the bound
\* on AREA_SQKM
BuildQuery(hasG, hasO, m) ==
    IF hasG /\ hasO THEN [flags |-> {"gaps", "overlaps"}, area_lt |-> m]
    ELSE IF hasG THEN [flags |-> {"gaps"}, area_lt |-> m]
    ELSE [flags |-> {"overlaps"}, area_lt |-> m]

\* the value of the where clause on a row
Where(q, row) ==
    LET flagged ==
            IF q.flags = {"gaps", "overlaps"}
            THEN SqlOr(SqlEq(row.gaps, 1), SqlEq(row.overlaps, 1))
            ELSE IF q.flags = {"gaps"} THEN SqlEq(row.gaps, 1)
            ELSE SqlEq(row.overlaps, 1)
    IN SqlAnd(flagged, SqlLt(row.AREA_SQKM, q.area_lt))

\* SelectLayerByAttribute NEW_SELECTION (line 33): the rows on which the clause is true
Selected(q, rows) == {i \in 1..Len(rows) : Where(q, rows[i]) = "T"}

NoQuery == [flags |-> {}, area_lt |-> 0]

NotRun == {0}

ElimIdle ==
    /\ e_pc = "start"
    /\ e_flds = {}
    /\ e_recs = <<>>
    /\ max_area = 0
    /\ g = FALSE
    /\ o = FALSE
    /\ query = NoQuery
    /\ eliminated = NotRun

ElimInit ==
    /\ e_pc = "start"
    /\ e_flds \in SUBSET {"AREA_SQKM", "gaps", "overlaps"}
    /\ e_recs \in TablesOver(e_flds)
    /\ max_area \in MaxAreaValues
    /\ g = FALSE
    /\ o = FALSE
    /\ query = NoQuery
    /\ eliminated = NotRun

\* check_fc (lines 7-23), called at line 54: a missing AREA_SQKM is reported with
\* AddError and nothing else; only the absence of both flag fields exits.
ElimCheckFc ==
    /\ e_pc = "start"
    /\ g' = CheckFc(e_flds)[1]
    /\ o' = CheckFc(e_flds)[2]
    /\ e_pc' = IF ~(g' \/ o') THEN "exit1" ELSE "checked"
    /\ UNCHANGED <<e_flds, e_recs, max_area, query, eliminated>>
    /\ UNCHANGED <<mainVars, analysisVars, setupVars>>

\* lines 56-63
ElimBuildQuery ==
    /\ e_pc = "checked"
    /\ query' = BuildQuery(g, o, max_area)
    /\ e_pc' = "run_eliminate"
    /\ UNCHANGED <<e_flds, e_recs, max_area, g, o, eliminated>>
    /\ UNCHANGED <<mainVars, analysisVars, setupVars>>

\* run_eliminate (lines 26-40). The toolkit rejects a where clause that names a field
\* the layer does not have: SelectLayerByAttribute raises ExecuteError, which nothing
\* catches. Otherwise Eliminate receives the layer with its selection.
RunEliminate ==
    /\ e_pc = "run_eliminate"
    /\ IF "AREA_SQKM" \notin e_flds
       THEN e_pc' = "error" /\ eliminated' = eliminated
       ELSE e_pc' = "done" /\ eliminated' = Selected(query, e_recs)
    /\ UNCHANGED <<e_flds, e_recs, max_area, g, o, query>>
    /\ UNCHANGED <<mainVars, analysisVars, setupVars>>

NextElim ==
    \/ ElimCheckFc
    \/ ElimBuildQuery
    \/ RunEliminate

----------------------------------------------------------------------------
(* setup_gap_overlap_review.py *)

\* the most layers of the template map
MaxLayers == 3

\* layers_to_update (line 9) and original_layer (line 10)
layers_to_update == {"overlaps", "gaps", "admin_union"}

original_layer == "original_loaded"

LayerNames == layers_to_update \cup {original_layer, "basemap"}

\* the data source every layer of the template starts with
TemplateSource == [database |-> <<"template.gdb">>, dataset |-> <<"template">>]

\* Paths are sequences of tokens: "\\" separates; a feature class name starts with
\* its three-letter iso token.
SamplePaths ==
    { <<"d", "\\", "g.gdb", "\\", "xyz", "_ingest", "_union">>,
      <<"d", "\\", "g.gdb", "\\", "xyz", "_ingest">>,
      <<"d", "\\", "shp", "\\", "xyz", "_ingest", "_union">>,
      <<"xyz", "_ingest", "_union">> }

\* str.rfind('\\'): the last index of the separator, or -1 (indices from 0)
RFind(s) ==
    IF \E i \in 1..Len(s) : s[i] = "\\"
    THEN (CHOOSE i \in 1..Len(s) : s[i] = "\\" /\ \A j \in (i + 1)..Len(s) : s[j] # "\\") - 1
    ELSE 0 - 1

\* s[:k] and s[k:] with Python's meaning of a negative k
SliceTo(s, k) == SubSeq(s, 1, IF k < 0 THEN Len(s) + k ELSE k)

SliceFrom(s, k) == SubSeq(s, (IF k < 0 THEN Len(s) + k ELSE k) + 1, Len(s))

\* lines 15-16
ToPath(f) == SliceTo(f, RFind(f))

ToFc(f) == SliceFrom(f, RFind(f) + 1)

\* line 22: '.gdb' not in to_path
InGdb(path) == \E i \in 1..Len(path) : path[i] = "g.gdb"

\* lines 25-26: iso = to_fc[:3]; orig_fc = f'{iso}_ingest'
OrigFc(f) == <<ToFc(f)[1], "_ingest">>

\* lines 29-31
ReplaceDict(f) == [database |-> ToPath(f), dataset |-> ToFc(f)]

\* lines 49-53
UpdateDict(f) == [database |-> ToPath(f), dataset |-> OrigFc(f)]

\* lines 54-57: the properties handed to updateConnectionProperties for the
\* original_loaded layer
OriginalLayerSource(f) == ReplaceDict(f)

\* lines 38-60: the loop over m.listLayers()
RECURSIVE Rebind(_, _, _)
Rebind(layers, f, exists) ==
    IF layers = <<>> THEN <<>>
    ELSE LET lyr == Head(layers)
             rest == Rebind(Tail(layers), f, exists)
         IN IF lyr.name \in layers_to_update
            THEN <<[lyr EXCEPT !.source = ReplaceDict(f)]>> \o rest
            ELSE IF lyr.name = original_layer
            THEN (IF exists
                  THEN <<[lyr EXCEPT !.source = OriginalLayerSource(f)]>> \o rest
                  ELSE rest)
            ELSE <<lyr>> \o rest

SetupIdle ==
    /\ s_pc = "start"
    /\ s_fc = <<>>
    /\ s_exists = FALSE
    /\ s_layers = <<>>
    /\ s_saved = FALSE

SetupInit ==
    /\ s_pc = "start"
    /\ s_fc \in SamplePaths
    /\ s_exists \in BOOLEAN
    /\ \E k \in 1..MaxLayers : \E names \in [1..k -> LayerNames] :
        s_layers = [i \in 1..k |-> [name |-> names[i], source |-> TemplateSource]]
    /\ s_saved = FALSE

\* setup_project lines 14-26: split the path, require a file geodatabase
SetupParsePath ==
    /\ s_pc = "start"
    /\ s_pc' = IF ~InGdb(ToPath(s_fc)) THEN "exit1" ELSE "rebind"
    /\ UNCHANGED <<s_fc, s_exists, s_layers, s_saved>>
    /\ UNCHANGED <<mainVars, analysisVars, elimVars>>

\* lines 33-60: import the template map and rebind its layers
SetupRebind ==
    /\ s_pc = "rebind"
    /\ s_layers' = Rebind(s_layers, s_fc, s_exists)
    /\ s_pc' = "save"
    /\ UNCHANGED <<s_fc, s_exists, s_saved>>
    /\ UNCHANGED <<mainVars, analysisVars, elimVars>>

\* line 61
SetupSave ==
    /\ s_pc = "save"
    /\ s_saved' = TRUE
    /\ s_pc' = "done"
    /\ UNCHANGED <<s_fc, s_exists, s_layers>>
    /\ UNCHANGED <<mainVars, analysisVars, elimVars>>

NextSetup ==
    \/ SetupParsePath
    \/ SetupRebind
    \/ SetupSave

----------------------------------------------------------------------------
(* Specifications: one per script *)

Init == MainInit /\ AnalysisInit /\ ElimIdle /\ SetupIdle

Next ==
    \/ CheckInputParams
    \/ ReadWords
    \/ CheckFields
    \/ ReturnUpdatedNames
    \/ CheckGeometry
    \/ CheckProjection
    \/ CheckSrs
    \/ CheckTopo
    \/ MakeCopy
    \/ RepairGeometry
    \/ CallAnalysis
    \/ Union
    \/ CountGapsOverlaps
    \/ FlagOverlaps
    \/ FlagGaps
    \/ CalculateStats
    \/ LogStats

Spec == Init /\ [][Next]_vars

InitElim == MainInit /\ AnalysisInit /\ ElimInit /\ SetupIdle

SpecElim == InitElim /\ [][NextElim]_vars

InitSetup == MainInit /\ AnalysisInit /\ ElimIdle /\ SetupInit

SpecSetup == InitSetup /\ [][NextSetup]_vars

----------------------------------------------------------------------------
(* Properties of overlap_gap_analysis *)

\* overlap_gap_analysis has ended: it returned to line 394 or raised
AnalysisEnded == pc \in {"stats", "log_stats", "done", "error"}

\* the rows of the union output that carry the id u
Fragments(u) == {i \in 1..Len(unionRecs) : unionRecs[i].union_uid = u}

\* the ids of the union output (not the null of a gap row)
UnionIds == {unionRecs[i].union_uid : i \in 1..Len(unionRecs)} \ {None, 0}

\* C1: when overlaps are found, every union_uid that occurs on more than one
\* fragment has exactly one fragment flagged overlaps = 2, a fragment of maximum
\* AREA_SQKM among them, and all its other fragments flagged 1; every fragment whose
\* union_uid occurs once is flagged 0.
C1_CentralPolygonFlagged ==
    (AnalysisEnded /\ overlaps > 0) =>
        \A u \in UnionIds :
            IF Cardinality(Fragments(u)) > 1
            THEN /\ \E c \in Fragments(u) :
                       /\ unionRecs[c].overlaps = 2
                       /\ \A j \in Fragments(u) :
                              /\ unionRecs[j].AREA_SQKM <= unionRecs[c].AREA_SQKM
                              /\ j # c => unionRecs[j].overlaps = 1
            ELSE \A j \in Fragments(u) : unionRecs[j].overlaps = 0

\* C2: when the union output has more records than the input, the returned gap count
\* is the number of records with a null union_uid, and the gaps field is 1 on exactly
\* those records and 0 on every other record.
C2_GapsFlagged ==
    (AnalysisEnded /\ Len(unionRecs) > original_count) =>
        /\ gap_count = Cardinality({i \in 1..Len(unionRecs) : Falsy(unionRecs[i].union_uid)})
        /\ \A i \in 1..Len(unionRecs) :
               unionRecs[i].gaps = IF Falsy(unionRecs[i].union_uid) THEN 1 ELSE 0

\* overlap_gap_analysis has returned its counts to line 394
AnalysisReturned == pc \in {"stats", "log_stats", "done"} \/ (pc = "error" /\ gap_count # None)

\* the block of lines 223-268 has been passed or has raised
PastOverlapBlock == pc = "flag_gaps" \/ AnalysisEnded

\* C11: whenever the union output has more records than the input, the returned gap
\* count plus the returned overlap count is the post-union record count minus the
\* original record count, neither count is negative, and the union output carries
\* the overlaps field exactly when some union_uid is on more than one union record.
C11_CountsAddUp ==
    Len(unionRecs) > original_count =>
        /\ AnalysisReturned =>
               /\ gap_count + overlap_count = Len(unionRecs) - original_count
               /\ gap_count >= 0
               /\ overlap_count >= 0
        /\ PastOverlapBlock =>
               ("overlaps" \in unionFlds <=> \E u \in UnionIds : Cardinality(Fragments(u)) > 1)

C11_Witness ==
    /\ pc = "stats"
    /\ original_count = 2
    /\ Len(unionRecs) = 4
    /\ gap_count = 1
    /\ overlap_count = 1
    /\ "overlaps" \in unionFlds

\* the records that are neither a gap (gaps = 1) nor an overlap (overlaps = 1)
Unflagged == {i \in 1..Len(unionRecs) : unionRecs[i].gaps # 1 /\ unionRecs[i].overlaps # 1}

\* the records whose flag for a field is 1
FlaggedBy(fld) ==
    {i \in 1..Len(unionRecs) :
        (IF fld = "gaps" THEN unionRecs[i].gaps ELSE unionRecs[i].overlaps) = 1}

\* the sum of AREA_SQKM over a set of records, each record once
RECURSIVE AreaSum(_)
AreaSum(S) ==
    IF S = {} THEN 0
    ELSE LET i == CHOOSE x \in S : TRUE IN unionRecs[i].AREA_SQKM + AreaSum(S \ {i})

\* for each of gaps and overlaps, the statistics hold the maximum and the mean area
\* of exactly the records whose flag for that field is 1
FlaggedStatsExact ==
    \A k \in {"gaps", "overlaps"} :
        /\ k \in DOMAIN topo_stats.max
        /\ \E i \in FlaggedBy(k) : topo_stats.max[k] = unionRecs[i].AREA_SQKM
        /\ \A i \in FlaggedBy(k) : unionRecs[i].AREA_SQKM <= topo_stats.max[k]
        /\ topo_stats.mean[k] = <<AreaSum(FlaggedBy(k)), Cardinality(FlaggedBy(k))>>

\* C12: calculate_gap_overlap_stats with ['gaps', 'overlaps'] reports as 'average unit
\* area excluding gaps and overlaps' a value made of the areas of the records that are
\* neither a gap nor an overlap, each counted once (their total or their mean), and
\* for each of gaps and overlaps the maximum and the mean area of exactly the records
\* flagged 1 for that field.
C12_StatsExcludeFlagged ==
    topo_stats.bound =>
        /\ \/ topo_stats.avg_excl = AreaSum(Unflagged)
           \/ topo_stats.avg_excl * Cardinality(Unflagged) = AreaSum(Unflagged)
        /\ FlaggedStatsExact

\* C10: once the script reaches the gap/overlap analysis it ends without an unhandled
\* error and with the statistics logged, whatever the mix of gaps and overlaps.
C10_AnalysisCompletes ==
    /\ pc # "error"
    /\ pc = "done" => topo_stats.bound

----------------------------------------------------------------------------
(* Properties of __main__ of check_input_boundaries.py *)

LogTools == {log[i][1] : i \in 1..Len(log)}

\* C4 as stated: with an unreadable reserved-word file the script halts, so no
\* geometry check, copy or union is made.
C4_HaltsOnUnreadableWords ==
    wordsRead = "ioerror" =>
        /\ pc \in {"check_fields", "fields_return"}
        /\ LogTools \cap {"CheckGeometry", "CopyFeatures", "Union"} = {}

\* C4 amended: with an unreadable reserved-word file the script goes on with an empty
\* word list, so exactly the fields that start with a digit or an underscore are
\* renamed, and no exit is taken on account of the file.
C4_ContinuesWithEmptyWordList ==
    wordsRead = "ioerror" =>
        /\ reserved_words = {}
        /\ pc = "fields_return" =>
               DictKeys(changed_names) =
                   {f \in flds : StartsWithDigit(f) \/ StartsWithUnderscore(f)}
        /\ pc \notin {"read_words", "exit1_no_input"}

C4_Witness ==
    /\ wordsRead = "ioerror"
    /\ pc = "call_analysis"
    /\ {"CheckGeometry", "CopyFeatures"} \subseteq LogTools

BeforeCopy == {"check_proj", "check_srs", "check_topo", "exit1_no_proj", "exit1_no_polygons"}

\* C5 as stated: a layer with a projection and any geometry other than Polygon halts
\* with exit code 1 before the copy and the union.
C5_NonPolygonHalts ==
    (Truthy(has_proj) /\ shape_type # "Polygon") => pc \in BeforeCopy

\* C5 amended: a layer with a projection and a geometry other than Polygon or
\* MultiPatch halts with exit code 1 before the copy and the union; a MultiPatch
\* layer passes the geometry-type check.
C5_NonPolygonNonMultiPatchHalts ==
    /\ (Truthy(has_proj) /\ shape_type \notin {"Polygon", "MultiPatch"}) =>
           /\ pc \in BeforeCopy
           /\ pc # "exit1_no_proj"
           /\ LogTools \cap {"CopyFeatures", "Union"} = {}
    /\ (Truthy(has_proj) /\ shape_type = "MultiPatch") =>
           pc \notin {"exit1_no_polygons", "exit1_no_proj"}

C5_Witness ==
    /\ Truthy(has_proj)
    /\ shape_type = "Polyline"
    /\ pc = "exit1_no_polygons"

\* the step a toolkit call belongs to: describe/check geometry, copy, union, flag
Rank(tool) ==
    CASE tool = "CreateFileGDB" -> 0
      [] tool = "CheckGeometry" -> 1
      [] tool \in {"CopyFeatures", "AlterField", "RepairGeometry"} -> 2
      [] tool \in {"AddField union_uid", "Union"} -> 3
      [] OTHER -> 4

\* C6: the toolkit calls occur in the order check geometry, copy, union, flag; an
\* exit for a missing input or an unknown spatial reference comes before any copy,
\* repair or union; the union is run on the working copy and the flag fields are
\* written to its union output, never to the input feature class.
C6_StepOrder ==
    /\ \A i \in 1..Len(log) : \A j \in i..Len(log) : Rank(log[i][1]) <= Rank(log[j][1])
    /\ pc \in {"exit1_no_input", "exit1_no_proj"} =>
           LogTools \cap {"CopyFeatures", "RepairGeometry", "Union"} = {}
    /\ pc = "exit1_no_input" => log = <<>>
    /\ has_proj = "False" => pc \in {"check_proj", "exit1_no_proj"}
    /\ \A i \in 1..Len(log) :
           /\ Rank(log[i][1]) = 2 => log[i][2] = <<"ingest">>
           /\ Rank(log[i][1]) = 3 => log[i][2] = <<"ingest">>
           /\ Rank(log[i][1]) = 4 => log[i][2] = <<"ingest", "_union">>
           /\ log[i][2] = InputFc => log[i][1] = "CheckGeometry"

C6_Witness ==
    /\ pc = "log_stats"
    /\ {"RepairGeometry", "Union", "Update overlaps", "Update gaps"} \subseteq LogTools

----------------------------------------------------------------------------
(* Properties of check_fields *)

\* C7 as stated: the keys are the fields that are reserved or start with a digit or
\* an underscore; every reserved field maps to name + '_', every field starting with
\* a digit to 't_' + name, every field starting with an underscore to 't' + name.
C7_RenameMapping ==
    pc = "fields_return" =>
        /\ DictKeys(changed_names) =
               {f \in flds : f \in reserved_words \/ StartsWithDigit(f)
                                 \/ StartsWithUnderscore(f)}
        /\ \A f \in flds :
               /\ f \in reserved_words => DictGet(changed_names, f) = f \o <<"_">>
               /\ StartsWithDigit(f) => DictGet(changed_names, f) = <<"t", "_">> \o f
               /\ StartsWithUnderscore(f) => DictGet(changed_names, f) = <<"t">> \o f

\* C7 amended: the keys are as stated and each key has one value; a field starting
\* with a digit maps to 't_' + name and one starting with an underscore to
\* 't' + name, reserved or not; a reserved field that starts with neither maps to
\* name + '_'.
C7_RenameMappingEdgeFirst ==
    pc = "fields_return" =>
        /\ DictKeys(changed_names) =
               {f \in flds : f \in reserved_words \/ StartsWithDigit(f)
                                 \/ StartsWithUnderscore(f)}
        /\ Cardinality(changed_names) = Cardinality(DictKeys(changed_names))
        /\ \A f \in flds :
               /\ StartsWithDigit(f) => DictGet(changed_names, f) = <<"t", "_">> \o f
               /\ StartsWithUnderscore(f) => DictGet(changed_names, f) = <<"t">> \o f
               /\ (f \in reserved_words /\ ~StartsWithDigit(f) /\ ~StartsWithUnderscore(f))
                      => DictGet(changed_names, f) = f \o <<"_">>

C7_Witness ==
    /\ pc = "fields_return"
    /\ \E f \in flds : f \in reserved_words /\ StartsWithUnderscore(f)
    /\ \E f \in flds : f \in reserved_words /\ ~StartsWithUnderscore(f)
    /\ Cardinality(changed_names) = 2

----------------------------------------------------------------------------
(* Properties of eliminate_gaps_overlaps.py *)

\* C3: Eliminate receives exactly the rows whose gaps or overlaps flag, among the
\* flag fields that exist, is 1 and whose AREA_SQKM is below max_area; a central
\* polygon, an unflagged row and a row of area max_area or more are never among them.
C3_EliminateSelection ==
    e_pc = "done" =>
        /\ eliminated =
               {i \in 1..Len(e_recs) :
                    /\ \/ ("gaps" \in e_flds /\ e_recs[i].gaps = 1)
                       \/ ("overlaps" \in e_flds /\ e_recs[i].overlaps = 1)
                    /\ e_recs[i].AREA_SQKM < max_area}
        /\ \A i \in eliminated :
               /\ e_recs[i].overlaps # 2
               /\ e_recs[i].gaps = 1 \/ e_recs[i].overlaps = 1
               /\ ~(e_recs[i].AREA_SQKM >= max_area)

C3_Witness ==
    /\ e_pc = "done"
    /\ Len(e_recs) = 2
    /\ eliminated = {1}
    /\ e_recs[2].overlaps = 1
    /\ e_recs[2].AREA_SQKM = max_area

\* C9: without an AREA_SQKM field the script halts with exit code 1 at the check and
\* never invokes Eliminate, whatever flag fields exist.
C9_MissingAreaHalts ==
    ("AREA_SQKM" \notin e_flds /\ e_pc # "start") =>
        /\ e_pc = "exit1"
        /\ eliminated = NotRun

----------------------------------------------------------------------------
(* Properties of setup_project *)

\* C8: after setup_project every layer named overlaps, gaps or admin_union is bound
\* to the input feature class; original_loaded is bound to '<iso>_ingest' of the same
\* geodatabase when that exists and is removed when it does not; the project is saved.
C8_LayersRebound ==
    s_pc = "done" =>
        /\ s_saved
        /\ \A i \in 1..Len(s_layers) :
               /\ s_layers[i].name \in layers_to_update =>
                      s_layers[i].source =
                          [database |-> ToPath(s_fc), dataset |-> ToFc(s_fc)]
               /\ s_layers[i].name = original_layer =>
                      /\ s_exists
                      /\ s_layers[i].source =
                             [database |-> ToPath(s_fc), dataset |-> OrigFc(s_fc)]

====
